---- MODULE Spec2Model ----
(***************************************************************************)
(* MQTT_HASS: Home Assistant entities over MQTT.                           *)
(* The registry/dispatcher (MQTT_HASS), the Entity base and the transport   *)
(* calls they issue, modelled from src/src/MQTT_HASS.h.                     *)
(* Every library call is one atomic action.  The transport (class MQTT) is  *)
(* external: each connect/publish/subscribe outcome is chosen by the        *)
(* environment, and a call made while the transport is down fails.          *)
(***************************************************************************)
EXTENDS Integers, Sequences, FiniteSets, TLC

\* ------------------------------------------------------------------ bounds
\* Longest entity list explored (registerEntity is disabled beyond it).
MaxEntities == 3
\* Largest value of the wall clock Time.now() explored.
MaxTime == 1
\* Most transport calls that fail during one library call while connected.
MaxFailures == 2
\* Longest entity list explored where the broker's subscriptions are followed.
MaxSession == 2
\* Longest entity list explored where each MQTT_HASS object has its own.
MaxHeld == 1
\* Most transport sessions the example application opens.
MaxCycles == 2

\* ---------------------------------------------------------------- entities
\* The entity objects the application constructs (examples/usage/usage.ino).
\* obj is the object's identity (its address); cb tells whether a command
\* callback was handed to Entity::init (callbackPtr_ != nullptr); rev names the
\* revision of the member functions the object's class is built from: "h" the
\* implementation in src/MQTT_HASS.h, "cpp" the one in src/MQTT_HASS.cpp.
tamper ==
  [obj |-> "tamper", kind |-> "binary_sensor", dev |-> "imatesterbaby",
   name |-> "tamper", displayName |-> "Tamper Sensor", cb |-> FALSE,
   deviceClass |-> "tamper", unit |-> "", category |-> "normal",
   rev |-> "h"]

myButton ==
  [obj |-> "myButton", kind |-> "button", dev |-> "imatesterbaby",
   name |-> "button", displayName |-> "Button but bigger", cb |-> TRUE,
   deviceClass |-> "None", unit |-> "", category |-> "normal",
   rev |-> "h"]

myGarage ==
  [obj |-> "myGarage", kind |-> "cover", dev |-> "imatesterbaby",
   name |-> "garage", displayName |-> "Garage Door", cb |-> TRUE,
   deviceClass |-> "garage", unit |-> "", category |-> "normal",
   rev |-> "h"]

EntityObjs == {tamper, myButton, myGarage}

\* The size of the buffer each publishDiscovery() serializes into
\* (`char payload[2048]`).
BufferSize == 2048

\* A text of 2^n copies of s.
RECURSIVE Doubled(_, _)
Doubled(s, n) == IF n = 0 THEN s ELSE Doubled(s \o s, n - 1)

\* Further entity objects, one for each remaining kind and default.
temperature ==
  [obj |-> "temperature", kind |-> "sensor", dev |-> "imatesterbaby",
   name |-> "temperature", displayName |-> "Temperature Sensor", cb |-> FALSE,
   deviceClass |-> "temperature", unit |-> "degC", category |-> "normal",
   rev |-> "h"]

garageHealth ==
  [obj |-> "garageHealth", kind |-> "sensor", dev |-> "imatesterbaby",
   name |-> "garageHealth",
   displayName |-> "Garage Door Diagnostic Health Sensor", cb |-> FALSE,
   deviceClass |-> "None", unit |-> "", category |-> "diagnostic",
   rev |-> "h"]

\* BinarySensor("motion", "Motion", client, dev): the device class defaults
\* to DeviceClasses::None.
motion ==
  [obj |-> "motion", kind |-> "binary_sensor", dev |-> "imatesterbaby",
   name |-> "motion", displayName |-> "Motion", cb |-> FALSE,
   deviceClass |-> "None", unit |-> "", category |-> "normal", rev |-> "h"]

\* The same object built from the BinarySensor of src/MQTT_HASS.cpp.
motionCpp ==
  [obj |-> "motionCpp", kind |-> "binary_sensor", dev |-> "imatesterbaby",
   name |-> "motion", displayName |-> "Motion", cb |-> FALSE,
   deviceClass |-> "None", unit |-> "", category |-> "normal", rev |-> "cpp"]

\* Lock("frontDoor", "Front Door", client, dev, lockCallback)
frontDoor ==
  [obj |-> "frontDoor", kind |-> "lock", dev |-> "imatesterbaby",
   name |-> "frontDoor", displayName |-> "Front Door", cb |-> TRUE,
   deviceClass |-> "None", unit |-> "", category |-> "normal", rev |-> "h"]

\* Button("silent", "Silent Button", client, dev, nullptr)
silentButton ==
  [obj |-> "silentButton", kind |-> "button", dev |-> "imatesterbaby",
   name |-> "silent", displayName |-> "Silent Button", cb |-> FALSE,
   deviceClass |-> "None", unit |-> "", category |-> "normal", rev |-> "h"]

\* A Sensor whose display name alone is as long as the buffer.
verbose ==
  [obj |-> "verbose", kind |-> "sensor", dev |-> "imatesterbaby",
   name |-> "verbose", displayName |-> Doubled("x", 11), cb |-> FALSE,
   deviceClass |-> "None", unit |-> "", category |-> "normal", rev |-> "h"]

\* Button myButton2("button2", "Button but bigger2", client, dev,
\* buttonCallback2)
myButton2 ==
  [obj |-> "myButton2", kind |-> "button", dev |-> "imatesterbaby",
   name |-> "button2", displayName |-> "Button but bigger2", cb |-> TRUE,
   deviceClass |-> "None", unit |-> "", category |-> "normal", rev |-> "h"]

AllEntities ==
  EntityObjs \cup {temperature, garageHealth, motion, motionCpp, frontDoor,
                   silentButton, verbose}

\* Device::uniqueId of the device object of the first example ("1234567890").
DeviceUniqueId == "1234567890"

\* Utils::getSerialNum(): the serial number of the one device the process runs on.
SerialNum == "SN1"

\* Variant of TopicBase: the device segment has no "particle_" prefix.
TopicBaseBare(e) ==
  "homeassistant/" \o e.kind \o "/" \o e.dev \o "/" \o e.name \o "/"

\* Entity::topicBase_, as the constructors of the five kinds build it.
TopicBase(e) ==
  "homeassistant/" \o e.kind \o "/particle_" \o e.dev \o "/" \o e.name \o "/"

ConfigTopic(e) == TopicBase(e) \o "config"
CommandTopic(e) == TopicBase(e) \o "command"
AvailabilityTopic(e) == TopicBase(e) \o "availability"
StateTopic(e) == TopicBase(e) \o "state"

StatusTopic == "homeassistant/status"

\* --------------------------------------------------------------- payloads
\* A payload is either a plain text or a JSON object, kept as the sequence of
\* its <<key, value>> members in the order JSONBufferWriter wrote them.
\* cut: the JSON text was longer than the buffer and lost its end, json then
\* holds the members that were written whole; over: the buffer held no
\* terminating NUL and the publish read bytes past its end.
Text(s) == [text |-> s, json |-> <<>>, cut |-> FALSE, over |-> FALSE]
Json(members) == [text |-> "", json |-> members, cut |-> FALSE, over |-> FALSE]

\* The bytes of a serialized member: "key":"value" and a separator.
MemberSize(m) == Len(m[1]) + Len(m[2]) + 6
RECURSIVE MembersSize(_)
MembersSize(members) ==
  IF members = <<>> THEN 0
  ELSE MemberSize(Head(members)) + MembersSize(Tail(members))
\* The bytes of the serialized object: its members, the two braces, no
\* separator after the last member.
JsonSize(members) == MembersSize(members) + 1

\* The members JSONBufferWriter writes whole into the room left.
RECURSIVE Fitting(_, _)
Fitting(members, room) ==
  IF members = <<>> THEN <<>>
  ELSE IF MemberSize(Head(members)) > room THEN <<>>
       ELSE << Head(members) >>
            \o Fitting(Tail(members), room - MemberSize(Head(members)))

\* `char payload[2048]; memset(payload, 0, sizeof(payload)); JSONBufferWriter
\* writer(payload, sizeof(payload));` then `publish(topic, payload)`: the
\* writer drops what does not fit and appends no NUL, and nothing tests
\* writer.dataSize().  A text shorter than the buffer ends at a zeroed byte;
\* a text that fills it is read as a C string past the end of the array,
\* which is undefined: `over` is what that read does.
Buffer(members, over) ==
  IF JsonSize(members) < BufferSize THEN Json(members)
  ELSE [text |-> "", json |-> Fitting(members, BufferSize - 1),
        cut |-> JsonSize(members) > BufferSize, over |-> over]

\* Entity::fillDeviceJSON
DeviceJSON(e) ==
  << <<"device.identifiers", "particle_" \o e.dev>>,
     <<"device.name", e.dev>>,
     <<"device.manufacturer", "Particle MQTT_HASS">>,
     <<"device.model", "Particle Argon">>,
     <<"device.sw_version", "1.0">> >>

\* BinarySensor::publishDiscovery of src/MQTT_HASS.cpp: the members written.
DiscoveryMembersCpp(e) ==
  << <<"name", e.displayName>>,
     <<"state_topic", StateTopic(e)>>,
     <<"availability_topic", AvailabilityTopic(e)>>,
     <<"unique_id", DeviceUniqueId \o "_" \o e.name>> >>
  \o DeviceJSON(e)
  \o << <<"device_class", e.deviceClass>> >>

\* The publishDiscovery() of each kind: the members it writes.
DiscoveryMembers(e) ==
  IF e.rev = "cpp" THEN DiscoveryMembersCpp(e)
  ELSE
    << <<"name", e.displayName>> >>
    \o (IF e.kind \in {"binary_sensor", "sensor", "lock", "cover"}
        THEN << <<"state_topic", StateTopic(e)>> >> ELSE <<>>)
    \o (IF e.kind \in {"button", "lock", "cover"}
        THEN << <<"command_topic", CommandTopic(e)>> >> ELSE <<>>)
    \o << <<"availability_topic", AvailabilityTopic(e)>>,
          <<"unique_id", SerialNum \o "_" \o e.name>> >>
    \o DeviceJSON(e)
    \o (IF e.kind # "lock" /\ e.deviceClass # "None"
        THEN << <<"device_class", e.deviceClass>> >> ELSE <<>>)
    \o (IF e.kind = "sensor" /\ e.unit # ""
        THEN << <<"unit_of_measurement", e.unit>> >> ELSE <<>>)
    \o (IF e.kind = "sensor" /\ e.category = "diagnostic"
        THEN << <<"entity_category", "diagnostic">> >> ELSE <<>>)

\* The config payload handed to Entity::publishDiscovery(const char*).
DiscoveryPayload(e, o) == Buffer(DiscoveryMembers(e), o.over)

\* -------------------------------------------------------- transport calls
\* One call made on the transport, with the outcome the transport returned.
PublishCall(topic, payload, ok) ==
  [call |-> "publish", topic |-> topic, payload |-> payload, ok |-> ok]
SubscribeCall(topic, ok) ==
  [call |-> "subscribe", topic |-> topic, payload |-> Text(""), ok |-> ok]
\* MQTT::connect(id, user, pass); the client id is kept in the topic field.
ConnectCall(id, ok) ==
  [call |-> "connect", topic |-> id, payload |-> Text(""), ok |-> ok]

\* ------------------------------------------------------------------ state
VARIABLES
  connected,   \* MQTT::isConnected() of the instance the application uses
  entities_,   \* MQTT_HASS::entities_ of that instance, in list order
  op,          \* the library call made last
  arg,         \* its arguments
  result,      \* its return value (TRUE for a void call)
  calls,       \* the transport calls it made, in order, with their outcomes
  invoked,     \* the command callbacks it invoked, in order
  instances,   \* the function-local static of each getInstance overload
  instance_,   \* MQTT_HASS::instance_
  returned,    \* the instance the last getInstance call returned
  subs,        \* the topics subscribed to in the current transport session
  okDiscovery, \* the entity objects whose latest publishDiscovery returned true
  clients,     \* each getInstance static: its isConnected() and its entities_
  dispatched,  \* the instance whose globalCallback the wrapper ran last
  app          \* the example application: its revision and where it stands

vars == <<connected, entities_, op, arg, result, calls, invoked,
          instances, instance_, returned, subs, okDiscovery, clients,
          dispatched, app>>

\* The two MQTT_HASS objects side by side; followed by SpecDispatch, left
\* alone by the other specifications.
dispatchVars == <<clients, dispatched>>

\* The example application; followed by SpecExample, left alone by the other
\* specifications.
appVars == <<app>>

instanceVars == <<instances, instance_, returned, dispatchVars, appVars>>

\* The broker's view of the session; followed by SpecSession, left alone by
\* the other specifications.
sessionVars == <<subs, okDiscovery>>

\* -------------------------------------------------------- Entity (base class)
\* Variant of DiscoveryCalls: the command subscribe is made whether or not
\* the config publish succeeded.
DiscoveryCallsEager(e, o) ==
  << PublishCall(ConfigTopic(e), DiscoveryPayload(e, o), o.cfg) >>
  \o (IF e.cb THEN << SubscribeCall(CommandTopic(e), o.sub) >> ELSE <<>>)

\* Variant of DiscoveryCalls: a failed config publish is made a second time.
DiscoveryCallsRetry(e, o) ==
  IF ~o.cfg
  THEN << PublishCall(ConfigTopic(e), DiscoveryPayload(e, o), FALSE),
          PublishCall(ConfigTopic(e), DiscoveryPayload(e, o), FALSE) >>
  ELSE IF e.cb
       THEN << PublishCall(ConfigTopic(e), DiscoveryPayload(e, o), TRUE),
               SubscribeCall(CommandTopic(e), o.sub) >>
       ELSE << PublishCall(ConfigTopic(e), DiscoveryPayload(e, o), TRUE) >>

\* Variant of DiscoveryCalls: the command subscribe comes first, the config
\* publish after it.
DiscoveryCallsSubscribeFirst(e, o) ==
  (IF e.cb THEN << SubscribeCall(CommandTopic(e), o.sub) >> ELSE <<>>)
  \o << PublishCall(ConfigTopic(e), DiscoveryPayload(e, o), o.cfg) >>

\* Entity::publishDiscovery(const char*): the transport calls it makes.  The
\* revision of src/MQTT_HASS.cpp only publishes.
DiscoveryCalls(e, o) ==
  IF e.rev = "cpp"
  THEN << PublishCall(ConfigTopic(e), DiscoveryPayload(e, o), o.cfg) >>
  ELSE IF ~o.cfg
  THEN << PublishCall(ConfigTopic(e), DiscoveryPayload(e, o), FALSE) >>
  ELSE IF e.cb
       THEN << PublishCall(ConfigTopic(e), DiscoveryPayload(e, o), TRUE),
               SubscribeCall(CommandTopic(e), o.sub) >>
       ELSE << PublishCall(ConfigTopic(e), DiscoveryPayload(e, o), TRUE) >>

\* Entity::publishDiscovery(const char*): its return value.
DiscoveryResult(e, o) ==
  IF e.rev = "cpp" THEN o.cfg
  ELSE IF ~o.cfg THEN FALSE
  ELSE IF e.cb THEN (IF ~o.sub THEN FALSE ELSE TRUE)
       ELSE TRUE

\* Variant of AvailabilityCall: the payload is the entity's name.
AvailabilityCallNamed(e, o) ==
  PublishCall(AvailabilityTopic(e), Text(e.name), o.av)

\* Entity::publishAvailability
AvailabilityCall(e, o) ==
  PublishCall(AvailabilityTopic(e), Text("online"), o.av)

\* Entity::publishAvailability: its return value.
AvailabilityResult(e, o) == o.av

\* ------------------------------------------------------------ state tokens
\* enum States of BinarySensor, Lock and Cover: the enumerators in
\* declaration order (an enumerator's ordinal is its position), and the
\* states2Str table of each class, indexed by ordinal.
BinarySensorStates == <<"OFF", "ON">>
\* Variant of BinarySensorStates2Str: the two tokens change places.
BinarySensorStates2StrSwapped == <<"ON", "OFF">>
BinarySensorStates2Str == <<"OFF", "ON">>

LockStates == <<"UNLOCKED", "UNLOCKING", "LOCKED", "LOCKING", "JAMMED">>
LockStates2Str == <<"UNLOCKED", "UNLOCKING", "LOCKED", "LOCKING", "JAMMED">>

CoverStates == <<"OPEN", "CLOSED", "OPENING", "CLOSING", "STOPPED">>
\* Variant of CoverStates2Str: the tokens are the enumerators' names.
CoverStates2StrUpper == <<"OPEN", "CLOSED", "OPENING", "CLOSING", "STOPPED">>
CoverStates2Str == <<"open", "closed", "opening", "closing", "stopped">>

\* The values Sensor::updateState(String) is given.
SensorValues == {"21.5", "healthy"}

\* The enumerators and the table of a kind that has states.
States(kind) ==
  CASE kind = "binary_sensor" -> BinarySensorStates
    [] kind = "lock" -> LockStates
    [] kind = "cover" -> CoverStates
    [] OTHER -> <<>>
States2Str(kind) ==
  CASE kind = "binary_sensor" -> BinarySensorStates2Str
    [] kind = "lock" -> LockStates2Str
    [] kind = "cover" -> CoverStates2Str
    [] OTHER -> <<>>

\* The ordinal of an enumerator.
Ordinal(states, val) == CHOOSE i \in 1..Len(states) : states[i] = val

\* The values updateState of an entity accepts (Button has no updateState).
StateValues(e) ==
  IF e.kind = "sensor" THEN SensorValues
  ELSE {States(e.kind)[i] : i \in 1..Len(States(e.kind))}

\* updateState(val): the text handed to Entity::publishState, states2Str[val]
\* for the kinds with an enum, val itself for Sensor.
StateToken(e, val) ==
  IF e.kind = "sensor" THEN val
  ELSE States2Str(e.kind)[Ordinal(States(e.kind), val)]

\* Entity::publishState
StateCall(e, val, ok) == PublishCall(StateTopic(e), Text(StateToken(e, val)), ok)

\* ------------------------------------------------------ MQTT_HASS (registry)
\* "particle" + Utils::getSerialNum() + String(Time.now())
ClientId(t) == "particle" \o SerialNum \o ToString(t)

\* Variant of ConnectEntities: the list is kept.
ConnectEntitiesKeep(list, up) == list

\* MQTT_HASS::connect: the entity list it leaves.
ConnectEntities(list, up) ==
  IF up THEN list
  ELSE IF list # <<>> THEN <<>> ELSE list

\* Variant of ConnectCalls: no early return while connected.
ConnectCallsAlways(up, t, cOk, sOk) ==
  IF ~cOk THEN << ConnectCall(ClientId(t), FALSE) >>
  ELSE << ConnectCall(ClientId(t), TRUE), SubscribeCall(StatusTopic, sOk) >>

\* Variant of ConnectCalls: the status topic is subscribed to whether or not
\* the transport connect succeeded.
ConnectCallsSubscribeAnyway(up, t, cOk, sOk) ==
  IF up THEN <<>>
  ELSE << ConnectCall(ClientId(t), cOk), SubscribeCall(StatusTopic, cOk /\ sOk) >>

\* MQTT_HASS::connect: the transport calls it makes.
ConnectCalls(up, t, cOk, sOk) ==
  IF up THEN <<>>
  ELSE IF ~cOk THEN << ConnectCall(ClientId(t), FALSE) >>
       ELSE << ConnectCall(ClientId(t), TRUE), SubscribeCall(StatusTopic, sOk) >>

\* MQTT_HASS::connect: its return value.
ConnectResult(up, cOk, sOk) ==
  IF up THEN TRUE
  ELSE IF ~cOk THEN FALSE
       ELSE ~sOk

\* MQTT_HASS::connect: MQTT::isConnected() when it returns.
ConnectConnected(up, cOk) == IF up THEN TRUE ELSE cOk

\* Variant of RegisterEntities: an entity whose discovery failed is not kept.
RegisterEntitiesRollback(list, e, o) ==
  IF DiscoveryResult(e, o) THEN Append(list, e) ELSE list

\* MQTT_HASS::registerEntity: the entity list it leaves.
RegisterEntities(list, e, o) == Append(list, e)

\* Variant of RegisterCalls: discovery is left to the next replay.
RegisterCallsDeferred(e, o) == <<>>

\* MQTT_HASS::registerEntity: the transport calls it makes.
RegisterCalls(e, o) == DiscoveryCalls(e, o)

\* MQTT_HASS::registerEntity: its return value, that of Vector::append.
RegisterResult(e, o) == TRUE

\* Variant of AvailabilitiesCalls: the loop goes on after a failed publish.
RECURSIVE AvailabilitiesCallsNoStop(_, _, _)
AvailabilitiesCallsNoStop(list, outs, i) ==
  IF i > Len(list) THEN <<>>
  ELSE << AvailabilityCall(list[i], outs[i]) >>
       \o AvailabilitiesCallsNoStop(list, outs, i + 1)

\* MQTT_HASS::publishAvailabilities: the transport calls of the loop from
\* position i on.
RECURSIVE AvailabilitiesCalls(_, _, _)
AvailabilitiesCalls(list, outs, i) ==
  IF i > Len(list) THEN <<>>
  ELSE IF ~outs[i].av
       THEN << AvailabilityCall(list[i], outs[i]) >>
       ELSE << AvailabilityCall(list[i], outs[i]) >>
            \o AvailabilitiesCalls(list, outs, i + 1)

\* MQTT_HASS::publishAvailabilities: its return value.
RECURSIVE AvailabilitiesResult(_, _, _)
AvailabilitiesResult(list, outs, i) ==
  IF i > Len(list) THEN TRUE
  ELSE IF ~outs[i].av THEN FALSE
       ELSE AvailabilitiesResult(list, outs, i + 1)

\* Variant of ReplayDiscoveryCalls: the discovery loop ends at the first
\* entity whose publishDiscovery returns false.
RECURSIVE ReplayDiscoveryCallsStop(_, _, _)
ReplayDiscoveryCallsStop(list, outs, i) ==
  IF i > Len(list) THEN <<>>
  ELSE IF ~DiscoveryResult(list[i], outs[i])
       THEN DiscoveryCalls(list[i], outs[i])
       ELSE DiscoveryCalls(list[i], outs[i])
            \o ReplayDiscoveryCallsStop(list, outs, i + 1)

\* Variant of ReplayDiscoveryCalls: the entity after one whose
\* publishDiscovery returns false is passed over.
RECURSIVE ReplayDiscoveryCallsSkip(_, _, _)
ReplayDiscoveryCallsSkip(list, outs, i) ==
  IF i > Len(list) THEN <<>>
  ELSE IF ~DiscoveryResult(list[i], outs[i])
       THEN DiscoveryCalls(list[i], outs[i])
            \o ReplayDiscoveryCallsSkip(list, outs, i + 2)
       ELSE DiscoveryCalls(list[i], outs[i])
            \o ReplayDiscoveryCallsSkip(list, outs, i + 1)

\* MQTT_HASS::globalCallback, birth message: the discovery loop from
\* position i on.
RECURSIVE ReplayDiscoveryCalls(_, _, _)
ReplayDiscoveryCalls(list, outs, i) ==
  IF i > Len(list) THEN <<>>
  ELSE DiscoveryCalls(list[i], outs[i]) \o ReplayDiscoveryCalls(list, outs, i + 1)

\* An inbound payload is the sequence of its maximal runs of non-NUL bytes:
\* <<"online">> is the six bytes of "online", <<"online", "x">> the eight
\* bytes "online", NUL, "x", and <<"">> the payload of length 0.
RECURSIVE PayloadLength(_)
PayloadLength(payload) ==
  IF Len(payload) = 1 THEN Len(payload[1])
  ELSE Len(payload[1]) + 1 + PayloadLength(Tail(payload))

\* MQTT_HASS::globalCallback: `char p[length + 1]; memcpy(p, payload, length);
\* p[length] = NULL; String message(p);` keeps the bytes before the first NUL.
CString(payload) == payload[1]

\* Variant of CallbackCalls: the replay announces and marks available one
\* entity after the other.
RECURSIVE InterleavedCalls(_, _, _)
InterleavedCalls(list, outs, i) ==
  IF i > Len(list) THEN <<>>
  ELSE DiscoveryCalls(list[i], outs[i])
       \o << AvailabilityCall(list[i], outs[i]) >>
       \o InterleavedCalls(list, outs, i + 1)
CallbackCallsInterleaved(list, outs, topic, message) ==
  IF topic = StatusTopic /\ CString(message) = "online"
  THEN InterleavedCalls(list, outs, 1)
  ELSE <<>>

\* MQTT_HASS::globalCallback: the transport calls it makes.
CallbackCalls(list, outs, topic, message) ==
  IF topic = StatusTopic
  THEN IF CString(message) = "online"
       THEN ReplayDiscoveryCalls(list, outs, 1) \o AvailabilitiesCalls(list, outs, 1)
       ELSE <<>>
  ELSE <<>>

\* Variant of Routed: the topic is not compared.
RoutedAnyTopic(e, topic) == e.cb

\* Variant of Routed: the callback pointer is not tested.
RoutedByTopicOnly(e, topic) == topic = CommandTopic(e)

\* MQTT_HASS::globalCallback: the test that selects an entity's callback.
Routed(e, topic) == topic = CommandTopic(e) /\ e.cb

\* Variant of Invocation: the callback is handed the text kept in `message`,
\* the payload up to its first NUL byte, and the length of that text.
InvocationOfMessage(e, topic, message) ==
  [obj |-> e.obj, topic |-> topic, payload |-> << CString(message) >>,
   length |-> Len(CString(message))]

\* One invocation of an entity's callbackPtr_(topic, payload, length).
Invocation(e, topic, message) ==
  [obj |-> e.obj, topic |-> topic, payload |-> message,
   length |-> PayloadLength(message)]

\* MQTT_HASS::globalCallback, any other topic: the loop from position i on.
RECURSIVE RouteInvocations(_, _, _, _)
RouteInvocations(list, topic, message, i) ==
  IF i > Len(list) THEN <<>>
  ELSE (IF Routed(list[i], topic)
        THEN << Invocation(list[i], topic, message) >> ELSE <<>>)
       \o RouteInvocations(list, topic, message, i + 1)

\* MQTT_HASS::globalCallback: the callbacks it invokes.
CallbackInvocations(list, topic, message) ==
  IF topic = StatusTopic THEN <<>>
  ELSE RouteInvocations(list, topic, message, 1)

\* ------------------------------------------------------------ environment
\* The transport calls that can fail in one pass: the config publish, the
\* command subscribe and the availability publish of each entity object.
FailureKinds == {"cfg", "sub", "av"}
Failable ==
  {p \in {e.obj : e \in EntityObjs} \X FailureKinds :
     p[2] = "sub" => \E e \in EntityObjs : e.obj = p[1] /\ e.cb}

\* What the transport may do during one library call that issues calls of
\* the given kinds: while the connection is up it fails at most MaxFailures
\* of them, while it is down it fails every call.
FailureSets(up, kinds, list) ==
  IF up
  THEN {F \in SUBSET {p \in Failable :
                        /\ p[2] \in kinds
                        /\ \E i \in 1..Len(list) : list[i].obj = p[1]} :
          Cardinality(F) <= MaxFailures}
  ELSE {Failable}

\* The kinds of transport call an inbound message on a topic can lead to.
CallbackKinds(topic, message) ==
  IF topic = StatusTopic /\ CString(message) = "online" THEN FailureKinds ELSE {}

\* The outcomes of the calls made for entity e under failure set F.
Out(e, F) ==
  [cfg |-> <<e.obj, "cfg">> \notin F,
   sub |-> <<e.obj, "sub">> \notin F,
   av  |-> <<e.obj, "av">> \notin F,
   over |-> FALSE]

\* The outcomes for the entities of a list, by position.
Outs(list, F) == [i \in 1..Len(list) |-> Out(list[i], F)]

\* Topics and payloads of the inbound messages explored.
InboundTopics ==
  {StatusTopic, "homeassistant/other"}
  \cup {CommandTopic(e) : e \in EntityObjs}
  \cup {StateTopic(e) : e \in EntityObjs}

\* Text payloads, and payloads that carry a NUL byte.
InboundMessages == {<<"online">>, <<"offline">>}
InboundBytes == {<<"online", "x">>, <<"offline", "x">>, <<"", "online">>, <<"">>}

\* The clock values Time.now() may return.
Times == 0..MaxTime

NoEntity ==
  [obj |-> "", kind |-> "", dev |-> "", name |-> "", displayName |-> "",
   cb |-> FALSE, deviceClass |-> "None", unit |-> "", category |-> "normal",
   rev |-> "h"]

Arg(e, topic, message) ==
  [entity |-> e, topic |-> topic, message |-> message, host |-> "", port |-> 0,
   state |-> "", instance |-> ""]
StateArg(e, val) ==
  [entity |-> e, topic |-> "", message |-> <<"">>, host |-> "", port |-> 0,
   state |-> val, instance |-> ""]
NoArg == Arg(NoEntity, "", <<"">>)
\* A call made on, or a message delivered by, one of the two instances.
OnInstance(inst, a) == [a EXCEPT !.instance = inst]
InstanceArg(host, port) ==
  [entity |-> NoEntity, topic |-> "", message |-> <<"">>, host |-> host,
   port |-> port, state |-> "", instance |-> ""]

\* The function-local static of a getInstance overload: not yet constructed,
\* or constructed from the arguments of the first call.
NoInstance == [created |-> FALSE, host |-> "", port |-> 0]
Instance(host, port) == [created |-> TRUE, host |-> host, port |-> port]

\* The two overloads, getInstance(const char*, uint16_t) and
\* getInstance(const uint8_t*, uint16_t), and the arguments explored.
Overloads == {"domain", "ip"}
Hosts == [domain |-> {"mqtt.example.com", "broker.local"},
          ip |-> {"192.168.1.1", "192.168.0.3"}]
Ports == {1883, 8883}

\* No example application is running.
NoApp == [rev |-> 0, at |-> "", phase |-> "", k |-> 0, sessions |-> 0]

\* A constructed MQTT_HASS: not connected, no entities.
NoClients == [ov \in Overloads |-> [connected |-> FALSE, entities_ |-> <<>>]]

\* getInstance: `static MQTT_HASS instance(host, port)` is constructed by the
\* first call of that overload and kept by the later ones.
GetInstanceInstances(insts, ov, host, port) ==
  IF insts[ov].created THEN insts
  ELSE [insts EXCEPT ![ov] = Instance(host, port)]

\* MQTT_HASS::init, run by each constructor: instance_ = this.
GetInstanceInstance_(insts, inst, ov) ==
  IF insts[ov].created THEN inst ELSE ov

\* getInstance: `return instance`, the static of the overload called.
GetInstanceReturned(insts, ov) == ov

\* ----------------------------------------------------------------- actions
\* The state once the application's globals are constructed (usage.ino:
\* client = getInstance(mqtt_server, 1883), then the entities).
Init ==
  /\ connected = FALSE
  /\ entities_ = <<>>
  /\ op = "init"
  /\ arg = NoArg
  /\ result = TRUE
  /\ calls = <<>>
  /\ invoked = <<>>
  /\ instances = [domain |-> NoInstance, ip |-> Instance("192.168.0.3", 1883)]
  /\ instance_ = "ip"
  /\ returned = "ip"
  /\ subs = {}
  /\ okDiscovery = {}
  /\ clients = NoClients
  /\ dispatched = "nullptr"
  /\ app = NoApp

\* client.connect(user, pass)
Connect ==
  \E t \in Times, cOk \in BOOLEAN, sOk \in BOOLEAN :
    /\ op' = "connect"
    /\ arg' = NoArg
    /\ entities_' = ConnectEntities(entities_, connected)
    /\ calls' = ConnectCalls(connected, t, cOk, sOk)
    /\ result' = ConnectResult(connected, cOk, sOk)
    /\ connected' = ConnectConnected(connected, cOk)
    /\ invoked' = <<>>
    /\ UNCHANGED <<instanceVars, sessionVars>>

\* The transport session ends (MQTT::disconnect, or the connection is lost).
Disconnect ==
  /\ connected
  /\ connected' = FALSE
  /\ op' = "disconnect"
  /\ arg' = NoArg
  /\ result' = TRUE
  /\ calls' = <<>>
  /\ invoked' = <<>>
  /\ UNCHANGED <<entities_, instanceVars, sessionVars>>

\* client.registerEntity(&e)
RegisterEntity ==
  \E e \in EntityObjs :
  \E F \in FailureSets(connected, {"cfg", "sub"}, << e >>) :
    /\ Len(entities_) < MaxEntities
    /\ op' = "registerEntity"
    /\ arg' = Arg(e, "", <<"">>)
    /\ calls' = RegisterCalls(e, Out(e, F))
    /\ entities_' = RegisterEntities(entities_, e, Out(e, F))
    /\ result' = RegisterResult(e, Out(e, F))
    /\ invoked' = <<>>
    /\ UNCHANGED <<connected, instanceVars, sessionVars>>

\* client.publishAvailabilities()
PublishAvailabilities ==
  \E F \in FailureSets(connected, {"av"}, entities_) :
    /\ op' = "publishAvailabilities"
    /\ arg' = NoArg
    /\ calls' = AvailabilitiesCalls(entities_, Outs(entities_, F), 1)
    /\ result' = AvailabilitiesResult(entities_, Outs(entities_, F), 1)
    /\ invoked' = <<>>
    /\ UNCHANGED <<connected, entities_, instanceVars, sessionVars>>

\* The transport, while connected, delivers an inbound message:
\* globalCallbackWrapper, then globalCallback(topic, payload, length).
Deliver(topic, message, F) ==
  /\ connected
  /\ op' = "globalCallback"
  /\ arg' = Arg(NoEntity, topic, message)
  /\ calls' = CallbackCalls(entities_, Outs(entities_, F), topic, message)
  /\ invoked' = CallbackInvocations(entities_, topic, message)
  /\ result' = TRUE
  /\ UNCHANGED <<connected, entities_, instanceVars, sessionVars>>

\* A message with a text payload is delivered.
GlobalCallback ==
  \E topic \in InboundTopics, message \in InboundMessages :
  \E F \in FailureSets(connected, CallbackKinds(topic, message), entities_) :
    Deliver(topic, message, F)

\* A message whose payload carries a NUL byte, or is empty, is delivered.
GlobalCallbackBytes ==
  \E topic \in InboundTopics, message \in InboundBytes :
  \E F \in FailureSets(connected, CallbackKinds(topic, message), entities_) :
    Deliver(topic, message, F)

Next ==
  \/ Connect
  \/ Disconnect
  \/ RegisterEntity
  \/ PublishAvailabilities
  \/ GlobalCallback

Spec == Init /\ [][Next]_vars

\* ------------------------------------------- inbound payloads in raw bytes
NextInbound ==
  \/ Connect
  \/ Disconnect
  \/ RegisterEntity
  \/ GlobalCallbackBytes

SpecInbound == Init /\ [][NextInbound]_vars

\* The outcomes of the calls one entity operation makes: every transport
\* call fails while the connection is down.
Outcome(up, cfg, sub, av, over) ==
  [cfg |-> up /\ cfg, sub |-> up /\ sub, av |-> up /\ av, over |-> over]

\* -------------------------------------------- messages on entities' topics
\* The four topics of each entity object, and command payloads as the hub
\* sends them, one of them with a NUL byte in it.
EntityTopics ==
  {TopicBase(e) \o suffix :
     e \in EntityObjs, suffix \in {"config", "state", "command", "availability"}}
CommandMessages == {<<"PRESS">>, <<"OPEN", "x">>}

\* A message on one of the entities' topics is delivered.
GlobalCallbackEntity ==
  \E topic \in EntityTopics, message \in CommandMessages :
  \E F \in FailureSets(connected, CallbackKinds(topic, message), entities_) :
    Deliver(topic, message, F)

NextRoute ==
  \/ Connect
  \/ Disconnect
  \/ RegisterEntity
  \/ GlobalCallbackEntity

SpecRoute == Init /\ [][NextRoute]_vars

\* ------------------------------------------------ entities of any name
\* The entity object a constructor of a kind with a command callback builds
\* from a device name and an entity name; the names explored have no space.
NamedKinds == {"button", "cover"}
DeviceNames == {"a", "a/b"}
EntityNames == {"c", "b/c"}
NamedEntity(kind, dev, name) ==
  [obj |-> kind \o " " \o dev \o " " \o name, kind |-> kind, dev |-> dev,
   name |-> name, displayName |-> name, cb |-> TRUE, deviceClass |-> "None",
   unit |-> "", category |-> "normal", rev |-> "h"]

\* client.registerEntity(&e) for such an entity
RegisterNamed ==
  \E kind \in NamedKinds, dev \in DeviceNames, name \in EntityNames :
  \E cfg \in BOOLEAN, sub \in BOOLEAN :
    /\ Len(entities_) < MaxEntities
    /\ op' = "registerEntity"
    /\ arg' = Arg(NamedEntity(kind, dev, name), "", <<"">>)
    /\ calls' = RegisterCalls(NamedEntity(kind, dev, name),
                              Outcome(connected, cfg, sub, TRUE, FALSE))
    /\ entities_' = RegisterEntities(entities_, NamedEntity(kind, dev, name),
                                     Outcome(connected, cfg, sub, TRUE, FALSE))
    /\ result' = RegisterResult(NamedEntity(kind, dev, name),
                                Outcome(connected, cfg, sub, TRUE, FALSE))
    /\ invoked' = <<>>
    /\ UNCHANGED <<connected, instanceVars, sessionVars>>

NextTopics ==
  \/ Connect
  \/ Disconnect
  \/ RegisterNamed

SpecTopics == Init /\ [][NextTopics]_vars

\* ------------------------------------------ the broker's view of a session
\* The subscriptions of a session after a sequence of transport calls: every
\* subscribe that succeeded adds its topic.
Subscribed(S, cs) ==
  S \cup {cs[i].topic : i \in {j \in 1..Len(cs) : cs[j].call = "subscribe" /\ cs[j].ok}}

\* The subscriptions after connect(): those of the session when it was up; when
\* it was down the old session and its subscriptions are gone.
ConnectSubs(S, up, cs) == IF up THEN S ELSE Subscribed({}, cs)

\* The objects whose latest publishDiscovery returned true, after one more
\* publishDiscovery of e.
Discovered(D, e, o) ==
  IF DiscoveryResult(e, o) THEN D \cup {e.obj} ELSE D \ {e.obj}

\* The same after the discovery loop of a replay from position i on.
RECURSIVE ReplayDiscovered(_, _, _, _)
ReplayDiscovered(D, list, outs, i) ==
  IF i > Len(list) THEN D
  ELSE ReplayDiscovered(Discovered(D, list[i], outs[i]), list, outs, i + 1)

\* client.connect(user, pass)
ConnectSession ==
  \E t \in Times, cOk \in BOOLEAN, sOk \in BOOLEAN :
    /\ op' = "connect"
    /\ arg' = NoArg
    /\ entities_' = ConnectEntities(entities_, connected)
    /\ calls' = ConnectCalls(connected, t, cOk, sOk)
    /\ result' = ConnectResult(connected, cOk, sOk)
    /\ connected' = ConnectConnected(connected, cOk)
    /\ invoked' = <<>>
    /\ subs' = ConnectSubs(subs, connected, ConnectCalls(connected, t, cOk, sOk))
    /\ UNCHANGED <<okDiscovery, instanceVars>>

\* The transport session ends, and its subscriptions with it.
DisconnectSession ==
  /\ connected
  /\ connected' = FALSE
  /\ op' = "disconnect"
  /\ arg' = NoArg
  /\ result' = TRUE
  /\ calls' = <<>>
  /\ invoked' = <<>>
  /\ subs' = {}
  /\ UNCHANGED <<entities_, okDiscovery, instanceVars>>

\* client.registerEntity(&e)
RegisterEntitySession ==
  \E e \in EntityObjs :
  \E F \in FailureSets(connected, {"cfg", "sub"}, << e >>) :
    /\ Len(entities_) < MaxSession
    /\ op' = "registerEntity"
    /\ arg' = Arg(e, "", <<"">>)
    /\ calls' = RegisterCalls(e, Out(e, F))
    /\ entities_' = RegisterEntities(entities_, e, Out(e, F))
    /\ result' = RegisterResult(e, Out(e, F))
    /\ invoked' = <<>>
    /\ subs' = Subscribed(subs, RegisterCalls(e, Out(e, F)))
    /\ okDiscovery' = Discovered(okDiscovery, e, Out(e, F))
    /\ UNCHANGED <<connected, instanceVars>>

\* The hub's birth message is delivered.
BirthSession ==
  \E F \in FailureSets(connected, {"cfg", "sub"}, entities_) :
    /\ connected
    /\ op' = "globalCallback"
    /\ arg' = Arg(NoEntity, StatusTopic, <<"online">>)
    /\ calls' = CallbackCalls(entities_, Outs(entities_, F), StatusTopic, <<"online">>)
    /\ invoked' = CallbackInvocations(entities_, StatusTopic, <<"online">>)
    /\ result' = TRUE
    /\ subs' = Subscribed(subs, CallbackCalls(entities_, Outs(entities_, F),
                                              StatusTopic, <<"online">>))
    /\ okDiscovery' = ReplayDiscovered(okDiscovery, entities_, Outs(entities_, F), 1)
    /\ UNCHANGED <<connected, entities_, instanceVars>>

NextSession ==
  \/ ConnectSession
  \/ DisconnectSession
  \/ RegisterEntitySession
  \/ BirthSession

SpecSession == Init /\ [][NextSession]_vars

\* ------------------------------------------------- calls on a single entity
\* e.publishDiscovery()
PublishDiscovery ==
  \E e \in AllEntities, cfg \in BOOLEAN, sub \in BOOLEAN, over \in BOOLEAN :
    /\ op' = "publishDiscovery"
    /\ arg' = Arg(e, "", <<"">>)
    /\ calls' = DiscoveryCalls(e, Outcome(connected, cfg, sub, TRUE, over))
    /\ result' = DiscoveryResult(e, Outcome(connected, cfg, sub, TRUE, over))
    /\ invoked' = <<>>
    /\ UNCHANGED <<connected, entities_, instanceVars, sessionVars>>

\* e.publishAvailability()
PublishAvailability ==
  \E e \in AllEntities, av \in BOOLEAN :
    /\ op' = "publishAvailability"
    /\ arg' = Arg(e, "", <<"">>)
    /\ calls' = << AvailabilityCall(e, Outcome(connected, TRUE, TRUE, av, FALSE)) >>
    /\ result' = AvailabilityResult(e, Outcome(connected, TRUE, TRUE, av, FALSE))
    /\ invoked' = <<>>
    /\ UNCHANGED <<connected, entities_, instanceVars, sessionVars>>

\* e.updateState(val)
UpdateState ==
  \E e \in AllEntities, ok \in BOOLEAN :
  \E val \in StateValues(e) :
    /\ op' = "updateState"
    /\ arg' = StateArg(e, val)
    /\ calls' = << StateCall(e, val, connected /\ ok) >>
    /\ result' = (connected /\ ok)
    /\ invoked' = <<>>
    /\ UNCHANGED <<connected, entities_, instanceVars, sessionVars>>

NextEntity ==
  \/ Connect
  \/ Disconnect
  \/ PublishDiscovery
  \/ PublishAvailability
  \/ UpdateState

SpecEntity == Init /\ [][NextEntity]_vars

\* ------------------------------------------------- the getInstance overloads
\* The process before any getInstance call.
InitInstance ==
  /\ connected = FALSE
  /\ entities_ = <<>>
  /\ op = "init"
  /\ arg = NoArg
  /\ result = TRUE
  /\ calls = <<>>
  /\ invoked = <<>>
  /\ instances = [domain |-> NoInstance, ip |-> NoInstance]
  /\ instance_ = "nullptr"
  /\ returned = "nullptr"
  /\ subs = {}
  /\ okDiscovery = {}
  /\ clients = NoClients
  /\ dispatched = "nullptr"
  /\ app = NoApp

\* MQTT_HASS::getInstance(host, port), either overload
GetInstance ==
  \E ov \in Overloads, port \in Ports :
  \E host \in Hosts[ov] :
    /\ op' = "getInstance"
    /\ arg' = InstanceArg(host, port)
    /\ instances' = GetInstanceInstances(instances, ov, host, port)
    /\ instance_' = GetInstanceInstance_(instances, instance_, ov)
    /\ returned' = GetInstanceReturned(instances, ov)
    /\ UNCHANGED <<connected, entities_, result, calls, invoked, sessionVars,
                   dispatchVars, appVars>>

NextInstance == GetInstance

SpecInstance == InitInstance /\ [][NextInstance]_vars

\* ------------------------------------------- the two instances side by side
\* Each getInstance overload owns one MQTT_HASS object with its own transport
\* and its own entities_; the callback wrapper and instance_ are static, one
\* for the process.
Constructed == {ov \in Overloads : instances[ov].created}

\* globalCallbackWrapper: `if (instance_) instance_->globalCallback(...)`,
\* the instance whose globalCallback runs ("nullptr": none).
WrapperTarget(inst) == inst

\* The list globalCallback works on when the wrapper has dispatched.
WrapperList(cl, inst) == IF inst = "nullptr" THEN <<>> ELSE cl[inst].entities_

\* The arguments the application passes to each overload (usage.ino passes
\* {192, 168, 0, 3} and 1883).
ExampleHost == [domain |-> "mqtt.example.com", ip |-> "192.168.0.3"]
ExamplePort == 1883

\* MQTT_HASS::getInstance(host, port), either overload, with those arguments
GetInstanceOn ==
  \E ov \in Overloads :
    /\ op' = "getInstance"
    /\ arg' = InstanceArg(ExampleHost[ov], ExamplePort)
    /\ instances' = GetInstanceInstances(instances, ov, ExampleHost[ov],
                                         ExamplePort)
    /\ instance_' = GetInstanceInstance_(instances, instance_, ov)
    /\ returned' = GetInstanceReturned(instances, ov)
    /\ result' = TRUE
    /\ calls' = <<>>
    /\ invoked' = <<>>
    /\ UNCHANGED <<connected, entities_, sessionVars, dispatchVars, appVars>>

\* The command topics of the entity objects.
CommandTopics == {CommandTopic(e) : e \in EntityObjs}

\* x.connect(user, pass) on one of the instances
ConnectOn ==
  \E x \in Constructed, t \in Times, cOk \in BOOLEAN, sOk \in BOOLEAN :
    /\ op' = "connect"
    /\ arg' = OnInstance(x, NoArg)
    /\ calls' = ConnectCalls(clients[x].connected, t, cOk, sOk)
    /\ result' = ConnectResult(clients[x].connected, cOk, sOk)
    /\ invoked' = <<>>
    /\ clients' = [clients EXCEPT ![x] =
         [connected |-> ConnectConnected(clients[x].connected, cOk),
          entities_ |-> ConnectEntities(clients[x].entities_,
                                        clients[x].connected)]]
    /\ UNCHANGED <<connected, entities_, instances, instance_, returned,
                   dispatched, sessionVars, appVars>>

\* The transport session of one of the instances ends.
DisconnectOn ==
  \E x \in Constructed :
    /\ clients[x].connected
    /\ op' = "disconnect"
    /\ arg' = OnInstance(x, NoArg)
    /\ result' = TRUE
    /\ calls' = <<>>
    /\ invoked' = <<>>
    /\ clients' = [clients EXCEPT ![x].connected = FALSE]
    /\ UNCHANGED <<connected, entities_, instances, instance_, returned,
                   dispatched, sessionVars, appVars>>

\* x.registerEntity(&e) on one of the instances, e built on that instance
RegisterOn ==
  \E x \in Constructed, e \in EntityObjs :
  \E F \in FailureSets(clients[x].connected, {"cfg", "sub"}, << e >>) :
    /\ Len(clients[x].entities_) < MaxHeld
    /\ op' = "registerEntity"
    /\ arg' = OnInstance(x, Arg(e, "", <<"">>))
    /\ calls' = RegisterCalls(e, Out(e, F))
    /\ result' = RegisterResult(e, Out(e, F))
    /\ invoked' = <<>>
    /\ clients' = [clients EXCEPT ![x].entities_ =
                     RegisterEntities(clients[x].entities_, e, Out(e, F))]
    /\ UNCHANGED <<connected, entities_, instances, instance_, returned,
                   dispatched, sessionVars, appVars>>

\* The transport of a connected instance delivers a message on an entity's
\* command topic: globalCallbackWrapper, then globalCallback of instance_.
DeliverOn ==
  \E x \in Constructed, topic \in CommandTopics, message \in CommandMessages :
    /\ clients[x].connected
    /\ op' = "globalCallback"
    /\ arg' = OnInstance(x, Arg(NoEntity, topic, message))
    /\ dispatched' = WrapperTarget(instance_)
    /\ calls' = CallbackCalls(WrapperList(clients, WrapperTarget(instance_)),
                              Outs(WrapperList(clients, WrapperTarget(instance_)), {}),
                              topic, message)
    /\ invoked' = CallbackInvocations(
                      WrapperList(clients, WrapperTarget(instance_)),
                      topic, message)
    /\ result' = TRUE
    /\ UNCHANGED <<connected, entities_, instances, instance_, returned,
                   clients, sessionVars, appVars>>

NextDispatch ==
  \/ GetInstanceOn
  \/ ConnectOn
  \/ DisconnectOn
  \/ RegisterOn
  \/ DeliverOn

SpecDispatch == InitInstance /\ [][NextDispatch]_vars

\* ------------------------------------------------ the example application
\* examples/usage/usage.ino in its two revisions: 1 is the first sketch of
\* the file, 2 the second, which adds the diagnostic sensor garageHealth.
Revisions == {1, 2}

\* The entity objects a revision creates.
ExampleCreated(rev) ==
  IF rev = 1 THEN {tamper, temperature, myButton, myButton2, myGarage}
  ELSE {tamper, temperature, garageHealth, myButton, myButton2, myGarage}

\* The registerEntity calls of setup(), in order.
SetupOrder(rev) ==
  IF rev = 1 THEN <<tamper, myButton, myButton2, myGarage, temperature>>
  ELSE <<tamper, temperature, garageHealth, myButton, myButton2, myGarage>>

\* The registerEntity calls of the else branch of loop(), in order.
LoopOrder(rev) == <<tamper, myButton, myButton2, myGarage, temperature>>

\* The calls the application is working through at its position.
RegisterOrder(a) ==
  IF a.phase = "setup" THEN SetupOrder(a.rev) ELSE LoopOrder(a.rev)

\* `client.connect(...); if (client.isConnected()) { register... }`: where
\* the application goes after connect().
AfterConnect(a, up) ==
  IF up
  THEN [a EXCEPT !.at = "register", !.k = 1, !.sessions = a.sessions + 1]
  ELSE [a EXCEPT !.at = "loop", !.phase = "loop", !.k = 0]

\* Where it goes after the k-th registerEntity of the block.
AfterRegister(a) ==
  IF a.k < Len(RegisterOrder(a))
  THEN [a EXCEPT !.k = a.k + 1]
  ELSE [a EXCEPT !.at = "loop", !.phase = "loop", !.k = 0]

\* The updateState calls of one pass of loop(): every tenth pass tamper ON,
\* the temperature and (revision 2) garageHealth, the other passes tamper OFF.
UpdateCalls(rev, tenth, up, oks) ==
  IF ~tenth THEN << StateCall(tamper, "OFF", up /\ oks[1]) >>
  ELSE << StateCall(tamper, "ON", up /\ oks[1]),
          StateCall(temperature, "25", up /\ oks[2]) >>
       \o (IF rev = 2
           THEN << StateCall(garageHealth, "healthy", up /\ oks[3]) >>
           ELSE <<>>)

\* The outcomes of a pass over the list in which the transport fails the calls
\* made for the entity at position j (j = 0: for none).
PassOuts(list, up, j) ==
  [i \in 1..Len(list) |-> Outcome(up, i # j, i # j, i # j, FALSE)]

\* The messages the hub sends the application: its birth message and the
\* commands of the button and of the garage door.
ExampleInbound ==
  {<<StatusTopic, <<"online">> >>,
   <<CommandTopic(myButton), <<"PRESS">> >>,
   <<CommandTopic(myGarage), <<"OPEN">> >>}

\* The globals are constructed and setup() is about to run.
InitExample ==
  /\ connected = FALSE
  /\ entities_ = <<>>
  /\ op = "init"
  /\ arg = NoArg
  /\ result = TRUE
  /\ calls = <<>>
  /\ invoked = <<>>
  /\ instances = [domain |-> NoInstance, ip |-> Instance("192.168.0.3", 1883)]
  /\ instance_ = "ip"
  /\ returned = "ip"
  /\ subs = {}
  /\ okDiscovery = {}
  /\ clients = NoClients
  /\ dispatched = "nullptr"
  /\ \E rev \in Revisions :
       app = [rev |-> rev, at |-> "setup", phase |-> "setup", k |-> 0,
              sessions |-> 0]

\* setup(): client.connect("mqtt_user", "mqtt_password")
SetupConnect ==
  \E t \in Times, cOk \in BOOLEAN, sOk \in BOOLEAN :
    /\ app.at = "setup"
    /\ op' = "connect"
    /\ arg' = NoArg
    /\ entities_' = ConnectEntities(entities_, connected)
    /\ calls' = ConnectCalls(connected, t, cOk, sOk)
    /\ result' = ConnectResult(connected, cOk, sOk)
    /\ connected' = ConnectConnected(connected, cOk)
    /\ invoked' = <<>>
    /\ app' = AfterConnect(app, ConnectConnected(connected, cOk))
    /\ UNCHANGED <<instances, instance_, returned, dispatchVars, sessionVars>>

\* loop(), not connected: client.connect("mqtt_user", "mqtt_password")
LoopConnect ==
  \E t \in Times, cOk \in BOOLEAN, sOk \in BOOLEAN :
    /\ app.at = "loop"
    /\ ~connected
    /\ op' = "connect"
    /\ arg' = NoArg
    /\ entities_' = ConnectEntities(entities_, connected)
    /\ calls' = ConnectCalls(connected, t, cOk, sOk)
    /\ result' = ConnectResult(connected, cOk, sOk)
    /\ connected' = ConnectConnected(connected, cOk)
    /\ invoked' = <<>>
    /\ app' = AfterConnect(app, ConnectConnected(connected, cOk))
    /\ UNCHANGED <<instances, instance_, returned, dispatchVars, sessionVars>>

\* The next client.registerEntity(&e) of the block the application is in
RegisterNext ==
  \E cfg \in BOOLEAN, sub \in BOOLEAN :
    /\ app.at = "register"
    /\ op' = "registerEntity"
    /\ arg' = Arg(RegisterOrder(app)[app.k], "", <<"">>)
    /\ calls' = RegisterCalls(RegisterOrder(app)[app.k],
                              Outcome(connected, cfg, sub, TRUE, FALSE))
    /\ entities_' = RegisterEntities(entities_, RegisterOrder(app)[app.k],
                                     Outcome(connected, cfg, sub, TRUE, FALSE))
    /\ result' = RegisterResult(RegisterOrder(app)[app.k],
                                Outcome(connected, cfg, sub, TRUE, FALSE))
    /\ invoked' = <<>>
    /\ app' = AfterRegister(app)
    /\ UNCHANGED <<connected, instances, instance_, returned, dispatchVars,
                   sessionVars>>

\* loop(), connected: the updateState calls of the pass
LoopUpdate ==
  \E tenth \in BOOLEAN, oks \in [1..3 -> BOOLEAN] :
    /\ app.at = "loop"
    /\ connected
    /\ op' = "updateState"
    /\ arg' = NoArg
    /\ calls' = UpdateCalls(app.rev, tenth, connected, oks)
    /\ result' = TRUE
    /\ invoked' = <<>>
    /\ app' = [app EXCEPT !.at = "availabilities"]
    /\ UNCHANGED <<connected, entities_, instances, instance_, returned,
                   dispatchVars, sessionVars>>

\* loop(): client.publishAvailabilities()
LoopAvailabilities ==
  \E j \in 0..Len(entities_) :
    /\ app.at = "availabilities"
    /\ op' = "publishAvailabilities"
    /\ arg' = NoArg
    /\ calls' = AvailabilitiesCalls(entities_, PassOuts(entities_, connected, j), 1)
    /\ result' = AvailabilitiesResult(entities_, PassOuts(entities_, connected, j), 1)
    /\ invoked' = <<>>
    /\ app' = [app EXCEPT !.at = "poll"]
    /\ UNCHANGED <<connected, entities_, instances, instance_, returned,
                   dispatchVars, sessionVars>>

\* loop(): client.loop() with nothing to deliver
LoopIdle ==
  /\ app.at = "poll"
  /\ op' = "loop"
  /\ arg' = NoArg
  /\ calls' = <<>>
  /\ result' = TRUE
  /\ invoked' = <<>>
  /\ app' = [app EXCEPT !.at = "loop"]
  /\ UNCHANGED <<connected, entities_, instances, instance_, returned,
                 dispatchVars, sessionVars>>

\* loop(): client.loop() delivers a message of the hub
LoopDeliver ==
  \E in \in ExampleInbound :
  \E j \in 0..Len(entities_) :
    /\ app.at = "poll"
    /\ connected
    /\ op' = "globalCallback"
    /\ arg' = Arg(NoEntity, in[1], in[2])
    /\ calls' = CallbackCalls(entities_, PassOuts(entities_, connected, j),
                              in[1], in[2])
    /\ invoked' = CallbackInvocations(entities_, in[1], in[2])
    /\ result' = TRUE
    /\ app' = [app EXCEPT !.at = "loop"]
    /\ UNCHANGED <<connected, entities_, instances, instance_, returned,
                   dispatchVars, sessionVars>>

\* The connection is lost while the application runs.
ConnectionLost ==
  /\ connected
  /\ app.sessions < MaxCycles
  /\ connected' = FALSE
  /\ op' = "disconnect"
  /\ arg' = NoArg
  /\ result' = TRUE
  /\ calls' = <<>>
  /\ invoked' = <<>>
  /\ UNCHANGED <<entities_, instances, instance_, returned, dispatchVars,
                 sessionVars, appVars>>

\* A step of the application itself.
ExampleStep ==
  \/ SetupConnect
  \/ LoopConnect
  \/ RegisterNext
  \/ LoopUpdate
  \/ LoopAvailabilities
  \/ LoopIdle
  \/ LoopDeliver

NextExample ==
  \/ SetupConnect
  \/ LoopConnect
  \/ RegisterNext
  \/ LoopUpdate
  \/ LoopAvailabilities
  \/ LoopIdle
  \/ LoopDeliver
  \/ ConnectionLost

SpecExample == InitExample /\ [][NextExample]_vars

\* The device OS calls setup() once and loop() for ever, and every library
\* call returns: the application always takes its next step.
SpecExampleLive == SpecExample /\ WF_vars(ExampleStep)

\* ================================================================== claims
\* Reading the record of the last library call.
ConfigTopics == {ConfigTopic(e) : e \in EntityObjs}
AvailabilityTopics == {AvailabilityTopic(e) : e \in EntityObjs}
IsConfigPublish(c) == c.call = "publish" /\ c.topic \in ConfigTopics
IsAvailabilityPublish(c) == c.call = "publish" /\ c.topic \in AvailabilityTopics
\* The positions of the calls of a trace that satisfy a test, in order.
ConfigPublishes(cs) == SelectSeq(cs, IsConfigPublish)
AvailabilityPublishes(cs) == SelectSeq(cs, IsAvailabilityPublish)
ConfigPositions(cs) == {i \in 1..Len(cs) : IsConfigPublish(cs[i])}
AvailabilityPositions(cs) == {i \in 1..Len(cs) : IsAvailabilityPublish(cs[i])}
\* The last call was the delivery of the hub's birth message.
BirthMessage ==
  /\ op = "globalCallback"
  /\ arg.topic = StatusTopic
  /\ CString(arg.message) = "online"
\* The discovery part of a replay: one config publish per entity, in list
\* order, all of them before any availability publish.
ReplayDiscoveryComplete ==
  /\ Len(ConfigPublishes(calls)) = Len(entities_)
  /\ \A i \in 1..Len(entities_) :
       ConfigPublishes(calls)[i].topic = ConfigTopic(entities_[i])
  /\ \A i \in ConfigPositions(calls), j \in AvailabilityPositions(calls) : i < j

\* C1 (as stated): after the birth message, with N entities registered, the
\* transport saw exactly N config publishes, one per entity in registration
\* order, followed by exactly N availability publishes, whatever any call
\* returned.
C1_AsStated ==
  BirthMessage =>
    /\ ReplayDiscoveryComplete
    /\ Len(AvailabilityPublishes(calls)) = Len(entities_)
    /\ \A i \in 1..Len(entities_) :
         AvailabilityPublishes(calls)[i].topic = AvailabilityTopic(entities_[i])

\* C1 (amended): after the birth message, with N entities registered, the
\* transport saw exactly N config publishes, one per entity in registration
\* order and whatever any of them returned, followed by the availability
\* publishes of the entities in registration order up to and including the
\* first one that failed: exactly N of them when none failed.
C1_ReplayThenAvailabilityUntilFailure ==
  BirthMessage =>
    LET avs == AvailabilityPublishes(calls)
        N == Len(entities_)
    IN /\ ReplayDiscoveryComplete
       /\ Len(avs) <= N
       /\ \A i \in 1..Len(avs) : avs[i].topic = AvailabilityTopic(entities_[i])
       /\ \A i \in 1..(Len(avs) - 1) : avs[i].ok
       /\ Len(avs) < N => (Len(avs) >= 1 /\ ~avs[Len(avs)].ok)

\* A replay over three entities in which a config publish failed, a later
\* one was still made, and the availability pass ended at its second entity.
C1_Witness ==
  /\ BirthMessage
  /\ Len(entities_) = 3
  /\ ~ConfigPublishes(calls)[1].ok
  /\ Len(ConfigPublishes(calls)) = 3
  /\ Len(AvailabilityPublishes(calls)) = 2
  /\ ~AvailabilityPublishes(calls)[2].ok

\* C2: publishAvailabilities publishes the availability of the entities in
\* registration order, each once, up to and including the first whose publish
\* fails and no further; it returns true exactly when all N were published
\* and all succeeded, and false when it stopped at a failure.
C2_AvailabilitiesStopAtFirstFailure ==
  op = "publishAvailabilities" =>
    LET n == Len(calls)
        N == Len(entities_)
    IN /\ n <= N
       /\ \A i \in 1..n :
            /\ calls[i].call = "publish"
            /\ calls[i].topic = AvailabilityTopic(entities_[i])
       /\ \A i \in 1..(n - 1) : calls[i].ok
       /\ n < N => (n >= 1 /\ ~calls[n].ok)
       /\ result = (n = N /\ \A i \in 1..n : calls[i].ok)

\* A pass over [e1, e2, e3] in which e2's publish failed: e1 and e2 were
\* attempted, e3 was not, and the result is false.
C2_Witness ==
  /\ op = "publishAvailabilities"
  /\ Len(entities_) = 3
  /\ Len(calls) = 2
  /\ calls[1].ok
  /\ ~calls[2].ok
  /\ result = FALSE

\* The positions of the entity list whose command topic is the topic of the
\* last inbound message.
Matching == {i \in 1..Len(entities_) : CommandTopic(entities_[i]) = arg.topic}

\* C3: an inbound message on topic T whose command topic belongs to exactly
\* one registered entity invokes that entity's handler (if it has one), once,
\* and no other handler; when no registered entity has T as its command
\* topic, no handler is invoked.
C3_RoutedToTheMatchingEntityOnly ==
  op = "globalCallback" =>
    /\ Matching = {} => invoked = <<>>
    /\ \A i \in Matching :
         Matching = {i} =>
           IF entities_[i].cb
           THEN /\ Len(invoked) = 1
                /\ invoked[1].obj = entities_[i].obj
           ELSE invoked = <<>>

\* A command for myGarage arrived while myButton, another entity with a
\* handler, was registered too: only myGarage's handler ran.
C3_Witness ==
  /\ op = "globalCallback"
  /\ arg.topic = CommandTopic(myGarage)
  /\ entities_ = <<myButton, myGarage, tamper>>
  /\ Len(invoked) = 1
  /\ invoked[1].obj = "myGarage"

\* C4: registerEntity(E) makes exactly one config publish, to E's config
\* topic and with E's discovery payload, during the call itself, whatever
\* the transport returns.
C4_OneDiscoveryPublishPerRegister ==
  op = "registerEntity" =>
    /\ Len(ConfigPublishes(calls)) = 1
    /\ IsConfigPublish(calls[1])
    /\ calls[1].topic = ConfigTopic(arg.entity)
    /\ calls[1].payload = Json(DiscoveryMembers(arg.entity))

\* An entity was registered and its one config publish failed.
C4_Witness ==
  /\ op = "registerEntity"
  /\ connected
  /\ Len(calls) = 1
  /\ calls[1].topic = ConfigTopic(arg.entity)
  /\ ~calls[1].ok

\* C5 (as stated): registerEntity returns false whenever the config publish
\* or the command subscribe of the entity failed.
C5_AsStated ==
  op = "registerEntity" =>
    ((\E i \in 1..Len(calls) : ~calls[i].ok) => result = FALSE)

\* C6: registerEntity(E) leaves the entity list as it was with E appended at
\* its end, also when E's discovery failed.
C6_RegisterAlwaysAppends ==
  [][op' = "registerEntity" => entities_' = Append(entities_, arg'.entity)]_vars

\* A second entity was registered while connected, its config publish failed
\* and it is the last entity of the list.
C6_Witness ==
  /\ op = "registerEntity"
  /\ connected
  /\ ~calls[1].ok
  /\ Len(entities_) = 2
  /\ entities_[2] = arg.entity

\* C7 (as stated): connect called while disconnected returns true exactly
\* when the transport connect succeeded and the subscribe to the control
\* topic succeeded.
C7_AsStated ==
  (op = "connect" /\ calls # <<>>) =>
    (result <=> (Len(calls) = 2 /\ calls[1].ok /\ calls[2].ok))

\* C8: connect called while the transport is connected makes no transport
\* call (no connect, no subscribe), leaves the entity list and the connection
\* as they are and returns true; so does every repetition.
C8_ConnectWhileConnectedIsNoOp ==
  [][(connected /\ op' = "connect") =>
       /\ calls' = <<>>
       /\ entities_' = entities_
       /\ connected'
       /\ result' = TRUE]_vars

\* connect returned without a transport call while entities were registered.
C8_Witness ==
  /\ op = "connect"
  /\ calls = <<>>
  /\ connected
  /\ result = TRUE
  /\ Len(entities_) = 2

\* s is a prefix of t.
IsPrefix(s, t) == Len(s) <= Len(t) /\ \A i \in 1..Len(s) : s[i] = t[i]

\* C9 (as stated): no library call removes an entity: the entity list before
\* a step is a prefix of the list after it.
C9_AsStated ==
  [][IsPrefix(entities_, entities_')]_vars

\* The instances constructed so far.
Created == {ov \in Overloads : instances[ov].created}

\* C10 (as stated): at most one MQTT_HASS instance is ever constructed,
\* whichever overloads of getInstance are called with whatever arguments, and
\* every call returns that one instance.
C10_AsStated ==
  /\ Cardinality(Created) <= 1
  /\ op = "getInstance" => Created = {returned}

\* C11 (as stated): a message on homeassistant/status whose payload is anything
\* other than the exact bytes "online" is ignored: the library makes no
\* transport call and invokes no callback for it.
C11_AsStated ==
  (/\ op = "globalCallback"
   /\ arg.topic = StatusTopic
   /\ arg.message # <<"online">>)
  => calls = <<>> /\ invoked = <<>>

\* Reading the record of the last call on a single entity.
AllOk(cs) == \A i \in 1..Len(cs) : cs[i].ok
Subscribes(cs, topic) ==
  \E i \in 1..Len(cs) : cs[i].call = "subscribe" /\ cs[i].topic = topic
Keys(payload) == {payload.json[i][1] : i \in 1..Len(payload.json)}
Values(payload) == {payload.json[i][2] : i \in 1..Len(payload.json)}

\* C12 (as stated): publishDiscovery publishes to topicBase + "config" and
\* subscribes to topicBase + "command" if and only if the entity has a command
\* handler; it returns false if the publish or the subscribe fails, true
\* otherwise.
C12_AsStated ==
  op = "publishDiscovery" =>
    /\ calls # <<>>
    /\ calls[1].call = "publish"
    /\ calls[1].topic = ConfigTopic(arg.entity)
    /\ Subscribes(calls, CommandTopic(arg.entity)) <=> arg.entity.cb
    /\ result = AllOk(calls)

\* C12 (amended): publishDiscovery publishes to topicBase + "config" first;
\* it then subscribes to topicBase + "command" if and only if the entity has a
\* command handler and that publish succeeded; these are its only transport
\* calls, and it returns true exactly when none of them failed.
C12_SubscribeIffHandlerAndPublished ==
  op = "publishDiscovery" =>
    /\ Len(calls) = (IF arg.entity.cb /\ calls[1].ok THEN 2 ELSE 1)
    /\ calls[1].call = "publish"
    /\ calls[1].topic = ConfigTopic(arg.entity)
    /\ Len(calls) = 2 =>
         calls[2].call = "subscribe" /\ calls[2].topic = CommandTopic(arg.entity)
    /\ result = AllOk(calls)

\* C12 witness: an entity with a command handler whose config publish failed
\* while the connection was up.
C12_Witness ==
  /\ op = "publishDiscovery"
  /\ connected
  /\ arg.entity.cb
  /\ ~calls[1].ok
  /\ Len(calls) = 1
  /\ result = FALSE

\* The last call was a transport connect attempt made by connect().
ConnectAttempt == op = "connect" /\ calls # <<>> /\ calls[1].call = "connect"

\* C13 (as stated): two connect attempts of the device never hand the same
\* client id to the transport, not even two attempts made one after the other
\* within the same clock second.
C13_AsStated ==
  [][(ConnectAttempt /\ ConnectAttempt') => calls'[1].topic # calls[1].topic]_vars

\* C14 (as stated): when the discovery payload of an entity is longer than
\* the 2048-byte buffer, publishDiscovery returns false and no cut payload
\* is published.
C14_AsStated ==
  (op = "publishDiscovery" /\ JsonSize(DiscoveryMembers(arg.entity)) > BufferSize)
  => /\ result = FALSE
     /\ \A i \in 1..Len(calls) :
          ~(calls[i].call = "publish" /\ calls[i].payload.cut /\ calls[i].ok)

\* C15 (as stated): the config payload of an entity has no device_class member
\* when its device class is None, no unit_of_measurement member when its unit
\* is empty, no entity_category member when its category is normal, and no
\* member whose value is "None" or "none".
C15_AsStated ==
  op = "publishDiscovery" =>
    /\ arg.entity.deviceClass = "None" => "device_class" \notin Keys(calls[1].payload)
    /\ arg.entity.unit = "" => "unit_of_measurement" \notin Keys(calls[1].payload)
    /\ arg.entity.category = "normal" => "entity_category" \notin Keys(calls[1].payload)
    /\ Values(calls[1].payload) \cap {"None", "none"} = {}

\* C16: updateState(ON) of a BinarySensor makes exactly one publish, of the
\* text "ON" to topicBase + "state", updateState(OFF) exactly one publish of
\* "OFF" to the same topic, and each returns what that publish returned.
C16_BinarySensorTokens ==
  (op = "updateState" /\ arg.entity.kind = "binary_sensor") =>
    /\ Len(calls) = 1
    /\ calls[1].call = "publish"
    /\ calls[1].topic = TopicBase(arg.entity) \o "state"
    /\ arg.state = "ON" => calls[1].payload = Text("ON")
    /\ arg.state = "OFF" => calls[1].payload = Text("OFF")
    /\ arg.state \in {"ON", "OFF"}
    /\ result = calls[1].ok

\* C16 witness: updateState(ON) on a BinarySensor, published successfully.
C16_Witness ==
  /\ op = "updateState"
  /\ arg.entity.kind = "binary_sensor"
  /\ arg.state = "ON"
  /\ result = TRUE

\* The wire tokens the claim names, by enumerator.
CoverTokens ==
  [OPEN |-> "open", CLOSED |-> "closed", OPENING |-> "opening",
   CLOSING |-> "closing", STOPPED |-> "stopped"]
LockTokens ==
  [UNLOCKED |-> "UNLOCKED", UNLOCKING |-> "UNLOCKING", LOCKED |-> "LOCKED",
   LOCKING |-> "LOCKING", JAMMED |-> "JAMMED"]

\* C17: updateState of a Cover publishes the lowercase token of the given
\* state (open, closed, opening, closing, stopped), updateState of a Lock the
\* uppercase one (UNLOCKED, UNLOCKING, LOCKED, LOCKING, JAMMED), and within a
\* kind two different states never have the same token.
C17_TokensCaseExactAndInjective ==
  (op = "updateState" /\ arg.entity.kind \in {"cover", "lock"}) =>
    /\ Len(calls) = 1
    /\ arg.entity.kind = "cover" =>
         /\ arg.state \in DOMAIN CoverTokens
         /\ calls[1].payload = Text(CoverTokens[arg.state])
    /\ arg.entity.kind = "lock" =>
         /\ arg.state \in DOMAIN LockTokens
         /\ calls[1].payload = Text(LockTokens[arg.state])
    /\ \A other \in StateValues(arg.entity) :
         StateToken(arg.entity, other) = calls[1].payload.text => other = arg.state

\* C17 witness: updateState(Cover::States::OPEN) published "open".
C17_Witness ==
  /\ op = "updateState"
  /\ arg.entity.kind = "cover"
  /\ arg.state = "OPEN"
  /\ calls[1].payload.text = "open"

\* The kinds and the topic suffixes the claim names.
KindSegments == {"binary_sensor", "sensor", "button", "lock", "cover"}
Suffixes == {"config", "state", "command", "availability"}

\* C18: every topic an entity operation publishes or subscribes to is
\* homeassistant/<kind>/particle_<device name>/<entity name>/<suffix>, where
\* <kind> is the entity's kind, one of the five, and <suffix> is config,
\* state, command or availability.
C18_TopicForm ==
  op \in {"publishDiscovery", "publishAvailability", "updateState"} =>
    /\ arg.entity.kind \in KindSegments
    /\ \A i \in 1..Len(calls) :
         \E suffix \in Suffixes :
           calls[i].topic =
             "homeassistant/" \o arg.entity.kind \o "/particle_"
             \o arg.entity.dev \o "/" \o arg.entity.name \o "/" \o suffix

\* C18 witness: a publishDiscovery that published to the config topic and
\* subscribed to the command topic of a Cover.
C18_Witness ==
  /\ op = "publishDiscovery"
  /\ arg.entity.kind = "cover"
  /\ Len(calls) = 2
  /\ calls[2].topic = "homeassistant/cover/particle_imatesterbaby/garage/command"

\* C19: publishAvailability of an entity makes exactly one publish, of the
\* text "online" to topicBase + "availability", and returns what that publish
\* returned; nothing else is published to an availability topic.
C19_AvailabilityIsOnline ==
  /\ op = "publishAvailability" =>
       /\ Len(calls) = 1
       /\ calls[1].call = "publish"
       /\ calls[1].topic = TopicBase(arg.entity) \o "availability"
       /\ result = calls[1].ok
  /\ \A i \in 1..Len(calls) :
       (/\ calls[i].call = "publish"
        /\ calls[i].topic \in {AvailabilityTopic(e) : e \in AllEntities})
       => calls[i].payload = Text("online")

\* C19 witness: a publishAvailability whose publish succeeded.
C19_Witness ==
  /\ op = "publishAvailability"
  /\ result = TRUE
  /\ calls[1].payload.text = "online"

\* C20: in the replay that follows the birth message every registered entity
\* gets its config publish, in registration order, whether or not the
\* discovery of an earlier entity failed.
C20_ReplayIsBestEffort ==
  BirthMessage =>
    /\ Len(ConfigPublishes(calls)) = Len(entities_)
    /\ \A i \in 1..Len(entities_) :
         /\ ConfigPublishes(calls)[i].topic = ConfigTopic(entities_[i])
         /\ ConfigPublishes(calls)[i].payload = Json(DiscoveryMembers(entities_[i]))

\* C20 witness: a replay over three entities in which the config publish of
\* the first failed and that of the last was made all the same.
C20_Witness ==
  /\ BirthMessage
  /\ connected
  /\ Len(entities_) = 3
  /\ ~ConfigPublishes(calls)[1].ok
  /\ ConfigPublishes(calls)[3].ok

\* The positions of the calls of a trace that are not availability publishes.
OtherPositions(cs) == {i \in 1..Len(cs) : ~IsAvailabilityPublish(cs[i])}

\* C21: in the replay that follows the birth message, every config publish
\* and every command subscribe comes before every availability publish, and
\* an availability publish is made only once each registered entity has had
\* its config publish.
C21_DiscoveryBeforeAvailability ==
  BirthMessage =>
    /\ \A i \in OtherPositions(calls), j \in AvailabilityPositions(calls) : i < j
    /\ AvailabilityPositions(calls) # {} =>
         Len(ConfigPublishes(calls)) = Len(entities_)

\* C21 witness: a replay over three entities with a command subscribe and
\* all three availability publishes.
C21_Witness ==
  /\ BirthMessage
  /\ Len(entities_) = 3
  /\ Subscribes(calls, CommandTopic(myGarage))
  /\ Len(AvailabilityPublishes(calls)) = 3

\* How often an object is in a list, and how often a trace holds a call of
\* one kind on one topic.
Occurrences(list, obj) == Cardinality({i \in 1..Len(list) : list[i].obj = obj})
CallsOn(cs, call, topic) ==
  Cardinality({i \in 1..Len(cs) : cs[i].call = call /\ cs[i].topic = topic})
\* The number of passes an operation makes over an entity.
Passes(e) ==
  IF op = "registerEntity" THEN (IF arg.entity.obj = e.obj THEN 1 ELSE 0)
  ELSE Occurrences(entities_, e.obj)

\* C22: registerEntity, publishAvailabilities and globalCallback never call
\* the transport's connect and make each config publish, command subscribe
\* and availability publish at most once for each pass over an entity, failed
\* or not; the number of their transport calls is at most three for each
\* registered entity.
C22_NoRetryNoReconnect ==
  op \in {"registerEntity", "publishAvailabilities", "globalCallback"} =>
    /\ \A i \in 1..Len(calls) : calls[i].call # "connect"
    /\ \A e \in EntityObjs :
         /\ CallsOn(calls, "publish", ConfigTopic(e)) <= Passes(e)
         /\ CallsOn(calls, "subscribe", CommandTopic(e)) <= Passes(e)
         /\ CallsOn(calls, "publish", AvailabilityTopic(e)) <= Passes(e)
    /\ \A i \in 1..Len(calls) :
         \E e \in EntityObjs :
           calls[i].topic \in {ConfigTopic(e), CommandTopic(e), AvailabilityTopic(e)}
    /\ Len(calls) <= 3 * Len(entities_)

\* C22 witness: a replay over three entities in which a transport call
\* failed while the connection was up.
C22_Witness ==
  /\ op = "globalCallback"
  /\ connected
  /\ Len(entities_) = 3
  /\ \E i \in 1..Len(calls) : ~calls[i].ok

\* C23 (as stated): the entity list changes only in registerEntity;
\* publishAvailabilities, the inbound-message callback and every other
\* operation leave it as it was.
C23_AsStated ==
  [][entities_' # entities_ => op' = "registerEntity"]_vars

\* C24: connect() called while disconnected makes exactly one transport
\* connect attempt; when it succeeds, exactly one subscribe, to
\* homeassistant/status, follows and the transport is connected; when it
\* fails, no subscribe is made and the transport stays disconnected.
C24_ConnectProtocol ==
  [][(op' = "connect" /\ ~connected) =>
       /\ calls' # <<>>
       /\ calls'[1].call = "connect"
       /\ CallsOn(calls', "connect", calls'[1].topic) = 1
       /\ calls'[1].ok =>
            /\ Len(calls') = 2
            /\ calls'[2].call = "subscribe"
            /\ calls'[2].topic = StatusTopic
            /\ connected'
       /\ ~calls'[1].ok => Len(calls') = 1 /\ ~connected']_vars

\* C24 witness: a connect() that connected and subscribed.
C24_Witness ==
  /\ op = "connect"
  /\ Len(calls) = 2
  /\ calls[1].ok
  /\ calls[2].ok
  /\ connected

\* The command topics of the entities that have no command handler.
NoHandlerCommandTopics == {CommandTopic(e) : e \in {x \in AllEntities : ~x.cb}}

\* C25: no call subscribes to the command topic of an entity that has no
\* command handler, and an inbound message on such a topic invokes no handler
\* and is processed without error.
C25_NoHandlerNoSubscribeNoInvocation ==
  /\ \A i \in 1..Len(calls) :
       calls[i].call = "subscribe" => calls[i].topic \notin NoHandlerCommandTopics
  /\ (op = "globalCallback" /\ arg.topic \in NoHandlerCommandTopics) =>
       invoked = <<>> /\ result = TRUE

\* C25 witness: a message on tamper's command topic arrived while tamper was
\* registered next to an entity with a handler.
C25_Witness ==
  /\ op = "globalCallback"
  /\ arg.topic = CommandTopic(tamper)
  /\ entities_ = <<tamper, myButton>>
  /\ invoked = <<>>

\* C28 (as stated): a connect() whose transport connect fails leaves the
\* entity list as it was before the call.
C28_AsStated ==
  [][(op' = "connect" /\ calls' # <<>> /\ ~calls'[1].ok)
       => entities_' = entities_]_vars

\* The config, state and availability topics of the entity objects.
OutboundTopics ==
  {TopicBase(e) \o suffix :
     e \in EntityObjs, suffix \in {"config", "state", "availability"}}

\* C26: an inbound message on a command topic invokes the handler of the
\* matching entity once for each registration of it, exactly once when it is
\* registered once, with the topic, the payload bytes and the length the
\* transport delivered; a message on a config, state or availability topic
\* invokes no handler.
C26_HandlerGetsTheDeliveredMessage ==
  (op = "globalCallback" /\ arg.topic # StatusTopic) =>
    /\ Len(invoked) = Cardinality({i \in Matching : entities_[i].cb})
    /\ \A k \in 1..Len(invoked) :
         /\ invoked[k].topic = arg.topic
         /\ invoked[k].payload = arg.message
         /\ invoked[k].length = PayloadLength(arg.message)
         /\ \E i \in Matching : entities_[i].obj = invoked[k].obj
    /\ arg.topic \in OutboundTopics => invoked = <<>>

\* C26 witness: a command for myGarage, registered once, whose payload has
\* a NUL byte: the handler ran once and got all 6 bytes.
C26_Witness ==
  /\ op = "globalCallback"
  /\ arg.topic = CommandTopic(myGarage)
  /\ arg.message = <<"OPEN", "x">>
  /\ Occurrences(entities_, "myGarage") = 1
  /\ Len(invoked) = 1
  /\ invoked[1].length = 6

\* C27 (as stated): two registered entities that differ in kind, device
\* name or entity name, the names having no space, have different topic
\* bases, hence different command topics.
C27_AsStated ==
  \A i, j \in 1..Len(entities_) :
    (\/ entities_[i].kind # entities_[j].kind
     \/ entities_[i].dev # entities_[j].dev
     \/ entities_[i].name # entities_[j].name)
    => /\ TopicBase(entities_[i]) # TopicBase(entities_[j])
       /\ CommandTopic(entities_[i]) # CommandTopic(entities_[j])

\* C29 (as stated): when connect() has returned true and the transport is
\* connected, homeassistant/status is subscribed to in the current session,
\* whether this connect() made the session or found it up.
C29_AsStated ==
  (op = "connect" /\ result = TRUE /\ connected) => StatusTopic \in subs

\* C30: while the transport is connected, the command topic of every listed
\* entity that has a command handler and whose latest publishDiscovery
\* returned true is subscribed to in the current session.
C30_DiscoveredMeansSubscribed ==
  connected =>
    \A i \in 1..Len(entities_) :
      (entities_[i].cb /\ entities_[i].obj \in okDiscovery)
      => CommandTopic(entities_[i]) \in subs

\* C30 witness: after a session ended and connect() made a new one, an
\* entity with a handler was registered again and its discovery succeeded.
C30_Witness ==
  /\ connected
  /\ op = "registerEntity"
  /\ entities_ = <<myButton>>
  /\ "myGarage" \in okDiscovery
  /\ "myButton" \in okDiscovery
  /\ subs = {CommandTopic(myButton)}

\* C31: in publishDiscovery the command subscribe comes only after a config
\* publish that succeeded: a subscribe to an entity's command topic directly
\* follows the successful publish of that entity's config, and a call whose
\* config publish failed made that publish and nothing else.
C31_SubscribeOnlyAfterConfigPublished ==
  op = "publishDiscovery" =>
    /\ calls # <<>>
    /\ calls[1] = PublishCall(ConfigTopic(arg.entity), calls[1].payload,
                              calls[1].ok)
    /\ ~calls[1].ok => Len(calls) = 1
    /\ \A i \in 1..Len(calls) :
         calls[i].call = "subscribe" =>
           /\ i = 2
           /\ calls[i].topic = CommandTopic(arg.entity)
           /\ calls[1].ok

\* The config publish of an entity with a handler failed while the connection
\* was up, and the call made no subscribe.
C31_Witness ==
  /\ op = "publishDiscovery"
  /\ connected
  /\ arg.entity = myButton
  /\ Len(calls) = 1
  /\ calls[1].call = "publish"
  /\ ~calls[1].ok

\* The value a discovery payload announces under "unique_id".
UniqueId(payload) ==
  payload.json[CHOOSE i \in 1..Len(payload.json) :
                 payload.json[i][1] = "unique_id"][2]

\* C32: two distinct entities (entities with different topicBase) announce
\* different unique_id values: the config payload a registerEntity published
\* carries a unique_id that no listed entity with another topicBase announced.
C32_AsStated ==
  (op = "registerEntity" /\ calls[1].ok) =>
    \A i \in 1..Len(entities_) :
      TopicBase(entities_[i]) # TopicBase(arg.entity) =>
        UniqueId(DiscoveryPayload(entities_[i],
                                  Outcome(TRUE, TRUE, TRUE, TRUE, FALSE)))
          # UniqueId(calls[1].payload)

\* The instances that hold entities.
Holders == {x \in Overloads : clients[x].entities_ # <<>>}

\* C33: a message delivered through the transport callback is dispatched to
\* the instance the entities were registered on: when one instance holds
\* entities and its transport delivers a message, the wrapper runs the
\* globalCallback of that instance.
C33_AsStated ==
  (op = "globalCallback" /\ Holders = {arg.instance}) =>
    dispatched = arg.instance

\* C34: under the example application's protocol the registry never holds
\* the same entity twice, whatever the number of reconnects: so a command
\* message invokes no handler twice and an availability pass publishes no
\* entity's availability twice.
C34_ExampleNeverRegistersTwice ==
  /\ \A i, j \in 1..Len(entities_) :
       entities_[i].obj = entities_[j].obj => i = j
  /\ op = "globalCallback" => Len(invoked) <= 1
  /\ op = "publishAvailabilities" =>
       \A i, j \in 1..Len(calls) : calls[i].topic = calls[j].topic => i = j

\* In its second session, after the loop registered its five entities again,
\* a command of the hub invoked its handler once.
C34_Witness ==
  /\ app.sessions = 2
  /\ app.phase = "loop"
  /\ Len(entities_) = 5
  /\ op = "globalCallback"
  /\ Len(invoked) = 1

\* The last call was an availability pass that published e's availability.
AvailabilityPublished(e) ==
  /\ op = "publishAvailabilities"
  /\ \E i \in 1..Len(calls) :
       calls[i].topic = AvailabilityTopic(e) /\ calls[i].ok

\* The transport is connected and every call of the last library call
\* succeeded.
Steady == connected /\ \A i \in 1..Len(calls) : calls[i].ok

\* C35: in the example application, if the transport eventually connects and
\* stays connected with every publish succeeding, then every entity the
\* application created, the diagnostic sensor garageHealth included, is
\* registered and has its availability published again and again.
C35_AsStated ==
  <>[]Steady =>
    \A e \in ExampleCreated(2) :
      []<>(e \in ExampleCreated(app.rev) =>
             /\ \E i \in 1..Len(entities_) : entities_[i] = e
             /\ AvailabilityPublished(e))

====
